---- MODULE Spec2Model ----
(***************************************************************************)
(* A model of the pint parser-combinator library (src/src/pint).          *)
(*                                                                         *)
(* Python objects are records.  A text input is the sequence of its        *)
(* characters; a Python value carries its type in the field t.  The        *)
(* outcome of one call of Parser.parse is a record whose field cls is the  *)
(* class of the object returned ("Result", "Error" of pint/__init__.py,   *)
(* "CustomError" / "UnexpectedError" of pint/errors.py), or "raise" when   *)
(* the call is left by an exception, or "diverge" when it does not return. *)
(* A record has exactly the attributes the Python object has, so an        *)
(* attribute lookup that fails in Python is a missing field here.          *)
(* A message is the sequence of the text fragments it is made of.          *)
(*                                                                         *)
(* Spec is the caller of Parser.parse and InputStream.take; SpecLabel is   *)
(* the caller of the labelled Parser of pint/parsers.py; SpecSites runs    *)
(* one Parser instance from two call sites, statement by statement;        *)
(* SpecReport makes the report of a primitive's error with make_report.    *)
(***************************************************************************)
EXTENDS Integers, Sequences, FiniteSets, TLC

\* pc: "ready" before the caller invokes a parser, "returned" after the call
\* inp, origin: the caller's InputStream and the text it was made from
\* op, args: the combinator whose parser was invoked and its arguments
\* outcome, calls: what Parser.parse gave and the named objects it called
\* heap: the Parser objects of pint/parsers.py, by identity
\* frames: the running invocations of one Parser instance, by call site
\* report: what make_report returned
VARIABLES pc, inp, origin, op, args, outcome, calls, heap, frames, report

vars == <<pc, inp, origin, op, args, outcome, calls, heap, frames, report>>

-----------------------------------------------------------------------------
(* Bounds *)

\* longest input text
MaxLen == 3
\* largest minimum / maximum handed to repeat
MaxCount == 2

\* the characters input texts are made of
Chars == {"_", "1", "@"}

\* iterations after which a loop that is still running is reported as
\* "diverge"; a loop that consumes input ends within Len(stream) + 1
\* iterations and a loop with a maximum within MaxCount iterations
LoopFuel == MaxLen + MaxCount + 2

-----------------------------------------------------------------------------
(* Python values *)

Str(s) == [t |-> "str", s |-> s]
List(l) == [t |-> "list", l |-> l]
Tuple(a, b) == [t |-> "tuple", a |-> a, b |-> b]
PyInt(n) == [t |-> "int", n |-> n]
NoneValue == [t |-> "None"]

\* bool(v) for the values `maximum` and `label` take: None, 0 and "" are false
Truthy(v) == v # NoneValue /\ v # PyInt(0) /\ v # [t |-> "str", s |-> <<>>]

\* x in s for two str values: s contains x as a substring
StrIn(x, s) ==
    \E i \in 1..(Len(s) + 1) :
        /\ i + Len(x) - 1 <= Len(s)
        /\ SubSeq(s, i, i + Len(x) - 1) = x

\* whether small is a contiguous part of big (message containment)
Contains(big, small) == StrIn(small, big)

-----------------------------------------------------------------------------
(* pint.InputStream *)

InputStream(stream, position) == [stream |-> stream, position |-> position]

\* InputStream.take with the new position counted from the taken slice alone
StreamTake_ResetsPosition(s, amount) ==
    IF amount > Len(s.stream)
    THEN [raised |-> TRUE]
    ELSE LET taken == SubSeq(s.stream, 1, amount)
             position == Len(taken)
         IN  [raised |-> FALSE,
              taken |-> Str(taken),
              remaining |-> InputStream(SubSeq(s.stream, amount + 1, Len(s.stream)), position)]

\* InputStream.take refusing to take all that is left
StreamTake_StrictBound(s, amount) ==
    IF amount >= Len(s.stream)
    THEN [raised |-> TRUE]
    ELSE LET taken == SubSeq(s.stream, 1, amount)
             position == s.position + Len(taken)
         IN  [raised |-> FALSE,
              taken |-> Str(taken),
              remaining |-> InputStream(SubSeq(s.stream, amount + 1, Len(s.stream)), position)]

\* InputStream.take: the exception, or the taken slice and the new stream
StreamTake(s, amount) ==
    IF amount > Len(s.stream)
    THEN [raised |-> TRUE]
    ELSE LET taken == SubSeq(s.stream, 1, amount)
             position == s.position + Len(taken)
         IN  [raised |-> FALSE,
              taken |-> Str(taken),
              remaining |-> InputStream(SubSeq(s.stream, amount + 1, Len(s.stream)), position)]

-----------------------------------------------------------------------------
(* Results and errors *)

Span(start, end) == [start |-> start, end |-> end]

\* pint.Result
Result(input, output) == [cls |-> "Result", input |-> input, output |-> output]

\* pint.Error, the class the combinators of parser.py test with isinstance
Error(message) == [cls |-> "Error", message |-> message]

\* pint.errors.CustomError, not a subclass of pint.Error
CustomError(message, span, label) ==
    [cls |-> "CustomError", message |-> message, span |-> span, label |-> label]

\* pint.errors.UnexpectedError, not a subclass of pint.Error
UnexpectedError(found, span, label) ==
    [cls |-> "UnexpectedError", found |-> found, span |-> span, label |-> label]

\* an exception leaving the call
Raise(exc) == [cls |-> "raise", exc |-> exc]

\* the call does not return
Diverge == [cls |-> "diverge"]

HasAttr(r, a) == a \in DOMAIN r

\* r stands for a returned object (the call neither raised nor diverged)
Returned(r) == r.cls \notin {"raise", "diverge"}

\* isinstance(r, Error) with Error imported from pint (parser.py line 9)
IsInstanceError(r) == r.cls = "Error"

\* isinstance(r, Result)
IsInstanceResult(r) == r.cls = "Result"

\* str(error)
ErrorStr(r) ==
    IF r.cls = "UnexpectedError" THEN <<"Unexpected item ">> \o
        (IF r.found.t = "str" THEN r.found.s ELSE <<"?">>)
    ELSE r.message

-----------------------------------------------------------------------------
(* Parsers: the closures of the library as terms.  The field name stands   *)
(* for the identity of a Parser or function object whose calls are logged. *)

result(value) == [op |-> "result", value |-> value, name |-> ""]
zero == [op |-> "zero", name |-> ""]
fail(message) == [op |-> "fail", message |-> message, name |-> ""]
unexpected(found, span, label) ==
    [op |-> "unexpected", found |-> found, span |-> span, label |-> label, name |-> ""]
take_any == [op |-> "take_any", name |-> ""]
take(amount) == [op |-> "take", amount |-> amount, name |-> ""]

\* Parser.bind: the closure over self and binder
bind(p, binder) == [op |-> "bind", self |-> p, binder |-> binder, name |-> ""]

\* a function object (lambda) of the library or of the caller
Lambda(f, arg) == [fn |-> f, arg |-> arg, name |-> ""]

map(p, map_fn) == bind(p, Lambda("map", map_fn))
then(p, then_p) == bind(p, Lambda("then", then_p))
ignore_then(p, then_p) == bind(p, Lambda("ignore_then", then_p))
then_ignore(p, then_p) == map(then(p, then_p), Lambda("first", NoneValue))
alt(p, q) == [op |-> "alt", self |-> p, other |-> q, name |-> ""]
repeat(p, mn, mx) == [op |-> "repeat", self |-> p, minimum |-> mn, maximum |-> mx, name |-> ""]
optional(p) == [op |-> "optional", self |-> p, name |-> ""]
delimited(p, start, end) == then_ignore(ignore_then(start, p), end)
fold(p, fold_fn) == map(p, Lambda("reduce", fold_fn))
collect_str(p) == map(p, Lambda("join", NoneValue))
seq(parsers) == [op |-> "seq", parsers |-> parsers, name |-> ""]

just(expected) == bind(take_any, Lambda("just", expected))
one_of(values) == bind(take_any, Lambda("one_of", values))
none_of(values) == bind(take_any, Lambda("none_of", values))
satisfy(pred) == bind(take_any, Lambda("satisfy", pred))

take_until(pattern) == [op |-> "take_until", pattern |-> pattern, name |-> ""]

\* text.just_str
just_str(expected) == bind(take(Len(expected.s)), Lambda("just_str", expected))

-----------------------------------------------------------------------------
(* The functions handed to bind and map *)

Digits == <<"0", "1", "2", "3", "4", "5", "6", "7", "8", "9">>

DigitValue(c) == CHOOSE d \in 0..9 : Digits[d + 1] = c

IsDigits(s) == Len(s) > 0 /\ \A i \in 1..Len(s) : \E d \in 1..10 : Digits[d] = s[i]

RECURSIVE StrToInt(_)
StrToInt(s) ==
    IF Len(s) = 0 THEN 0
    ELSE 10 * StrToInt(SubSeq(s, 1, Len(s) - 1)) + DigitValue(s[Len(s)])

Returns(v) == [raised |-> FALSE, value |-> v]
Throws(exc) == [raised |-> TRUE, exc |-> exc]

\* r[i] for i = 0, 1 (here index 1, 2)
GetItem(r, i) ==
    CASE r.t = "tuple" -> Returns(IF i = 1 THEN r.a ELSE r.b)
      [] r.t = "list" -> IF i <= Len(r.l) THEN Returns(r.l[i]) ELSE Throws("IndexError")
      [] r.t = "str" -> IF i <= Len(r.s) THEN Returns(Str(<<r.s[i]>>)) ELSE Throws("IndexError")
      [] OTHER -> Throws("TypeError")

\* a + b of the fold function lambda a, b: a + b
Add(a, b) ==
    CASE a.t = "int" /\ b.t = "int" -> Returns(PyInt(a.n + b.n))
      [] a.t = "str" /\ b.t = "str" -> Returns(Str(a.s \o b.s))
      [] OTHER -> Throws("TypeError")

\* functools.reduce(fold_fn, items, initial) with fold_fn = Add
RECURSIVE Reduce(_, _)
Reduce(items, acc) ==
    IF Len(items) = 0 THEN Returns(acc)
    ELSE LET step == Add(acc, Head(items))
         IN  IF step.raised THEN step ELSE Reduce(Tail(items), step.value)

\* the items iterating over a value yields
Items(v) ==
    CASE v.t = "list" -> Returns(v.l)
      [] v.t = "tuple" -> Returns(<<v.a, v.b>>)
      [] v.t = "str" -> Returns([i \in 1..Len(v.s) |-> Str(<<v.s[i]>>)])
      [] OTHER -> Throws("TypeError")

\* "".join(items)
RECURSIVE Join(_)
Join(items) ==
    IF Len(items) = 0 THEN Returns(Str(<<>>))
    ELSE IF Head(items).t # "str" THEN Throws("TypeError")
    ELSE LET rest == Join(Tail(items))
         IN  IF rest.raised THEN rest ELSE Returns(Str(Head(items).s \o rest.value.s))

\* calling a value function f (a map_fn) on v
CallFn(f, v) ==
    CASE f.fn = "int" ->
            IF v.t = "int" THEN Returns(v)
            ELSE IF v.t # "str" THEN Throws("TypeError")
            ELSE IF IsDigits(v.s) THEN Returns(PyInt(StrToInt(v.s)))
            ELSE Throws("ValueError")
      [] f.fn = "first" -> GetItem(v, 1)
      [] f.fn = "second" -> GetItem(v, 2)
      [] f.fn = "dup" -> Returns(Tuple(v, v))
      [] f.fn = "reduce" ->
            LET initial == GetItem(v, 1)
                rest == GetItem(v, 2)
            IN  IF rest.raised THEN rest
                ELSE IF initial.raised THEN initial
                ELSE LET items == Items(rest.value)
                     IN  IF items.raised THEN items
                         ELSE Reduce(items.value, initial.value)
      [] f.fn = "join" ->
            LET items == Items(v)
            IN  IF items.raised THEN items ELSE Join(items.value)

\* pred(c) of satisfy, for pred = str.isdigit
Pred(pred, c) ==
    IF c.t # "str" THEN Throws("AttributeError") ELSE Returns(IsDigits(c.s))

\* x in values, values a str
In(c, values) ==
    IF c.t # "str" THEN Throws("TypeError") ELSE Returns(StrIn(c.s, values.s))

\* the parser a binder returns
Parser(p) == [raised |-> FALSE, parser |-> p]

\* calling binder b on the output v of the first parser; the binder
\* "bind_after" is lambda v: f(v).bind(g)
RECURSIVE ApplyBinder(_, _)
ApplyBinder(b, v) ==
    CASE b.fn = "map" -> Parser([op |-> "map_inner", map_fn |-> b.arg, res |-> v, name |-> ""])
      [] b.fn = "then" -> Parser([op |-> "then_inner", then_p |-> b.arg, value |-> v, name |-> ""])
      [] b.fn = "ignore_then" -> Parser(b.arg)
      [] b.fn = "result" -> Parser(result(v))
      [] b.fn = "just" ->
            Parser(IF v = b.arg THEN result(v) ELSE unexpected(v, NoneValue, "just"))
      [] b.fn = "one_of" ->
            LET t == In(v, b.arg)
            IN  IF t.raised THEN t
                ELSE Parser(IF t.value THEN result(v) ELSE unexpected(v, NoneValue, "one_of"))
      [] b.fn = "none_of" ->
            LET t == In(v, b.arg)
            IN  IF t.raised THEN t
                ELSE Parser(IF ~t.value THEN result(v) ELSE unexpected(v, NoneValue, "none_of"))
      [] b.fn = "satisfy" ->
            LET t == Pred(b.arg, v)
            IN  IF t.raised THEN t
                ELSE Parser(IF t.value THEN result(v) ELSE unexpected(v, NoneValue, "satisfy"))
      [] b.fn = "just_str" ->
            Parser(IF v = b.arg THEN result(v) ELSE fail(<<"Unexpected character.">>))
      [] b.fn = "bind_after" ->
            LET t == ApplyBinder(b.arg.f, v)
            IN  IF t.raised THEN t ELSE Parser(bind(t.parser, b.arg.g))

-----------------------------------------------------------------------------
(* Parser.parse and the parsing functions *)

\* the log entry of a call of the object named n
Log(n) == IF n = "" THEN <<>> ELSE <<n>>

Done(r, c) == [res |-> r, calls |-> c]

\* str.index(pattern): the lowest index (from 0), or -1 for ValueError
Index(stream, pattern) ==
    IF StrIn(pattern, stream)
    THEN (CHOOSE i \in 1..(Len(stream) + 1) :
            /\ i + Len(pattern) - 1 <= Len(stream)
            /\ SubSeq(stream, i, i + Len(pattern) - 1) = pattern
            /\ \A j \in 1..(i - 1) : SubSeq(stream, j, j + Len(pattern) - 1) # pattern) - 1
    ELSE -1

BothMessage(first, second) ==
    <<"Both parsers returned an error.                     First parser: ">> \o first
        \o <<"; Second parser: ">> \o second

RECURSIVE Run(_, _)
RECURSIVE ParserFn(_, _)
RECURSIVE RepeatLoop(_, _, _, _, _)
RECURSIVE SeqLoop(_, _, _, _)

\* the parser_fn of Parser.bind
BindFn(p, s) ==
    LET r == Run(p.self, s)
    IN  IF ~Returned(r.res) THEN r
        ELSE IF IsInstanceError(r.res) THEN r
        ELSE IF ~HasAttr(r.res, "output") THEN Done(Raise("AttributeError"), r.calls)
        ELSE LET b == ApplyBinder(p.binder, r.res.output)
                 c == r.calls \o Log(p.binder.name)
             IN  IF b.raised THEN Done(Raise(b.exc), c)
                 ELSE LET r2 == Run(b.parser, r.res.input)
                      IN  Done(r2.res, c \o r2.calls)

\* the parser the binder of Parser.map returns: lambda inp: Result(inp, map_fn(res))
MapInnerFn(p, s) ==
    LET v == CallFn(p.map_fn, p.res)
    IN  Done(IF v.raised THEN Raise(v.exc) ELSE Result(s, v.value), Log(p.map_fn.name))

\* Parser.then.inner with the stream of the first parser kept as remaining
ThenInnerFn_KeepsInput(p, s) ==
    LET r == Run(p.then_p, s)
    IN  IF ~Returned(r.res) THEN r
        ELSE IF IsInstanceError(r.res) THEN r
        ELSE IF ~HasAttr(r.res, "input") THEN Done(Raise("AttributeError"), r.calls)
        ELSE Done(Result(s, Tuple(p.value, r.res.output)), r.calls)

\* the parser_fn of Parser.then.inner
ThenInnerFn(p, s) ==
    LET r == Run(p.then_p, s)
    IN  IF ~Returned(r.res) THEN r
        ELSE IF IsInstanceError(r.res) THEN r
        ELSE IF ~HasAttr(r.res, "input") THEN Done(Raise("AttributeError"), r.calls)
        ELSE Done(Result(r.res.input, Tuple(p.value, r.res.output)), r.calls)

\* Parser.alt invoking other before it looks at the result of self
AltFn_EagerOther(p, s) ==
    LET r == Run(p.self, s)
        r2 == Run(p.other, s)
        c == r.calls \o r2.calls
    IN  IF ~Returned(r.res) THEN r
        ELSE IF IsInstanceResult(r.res) THEN Done(r.res, c)
        ELSE IF ~Returned(r2.res) THEN Done(r2.res, c)
        ELSE IF IsInstanceError(r2.res)
        THEN IF ~HasAttr(r.res, "message") THEN Done(Raise("AttributeError"), c)
             ELSE Done(Error(BothMessage(r.res.message, r2.res.message)), c)
        ELSE Done(r2.res, c)

\* the parser_fn of Parser.alt
AltFn(p, s) ==
    LET r == Run(p.self, s)
    IN  IF ~Returned(r.res) THEN r
        ELSE IF IsInstanceResult(r.res) THEN r
        ELSE LET r2 == Run(p.other, s)
                 c == r.calls \o r2.calls
             IN  IF ~Returned(r2.res) THEN Done(r2.res, c)
                 ELSE IF IsInstanceError(r2.res)
                 THEN IF ~HasAttr(r.res, "message") THEN Done(Raise("AttributeError"), c)
                      ELSE Done(Error(BothMessage(r.res.message, r2.res.message)), c)
                 ELSE Done(r2.res, c)

\* the end of the parser_fn of Parser.repeat, after the loop
RepeatEnd(p, s, results, c) ==
    IF Len(results) < p.minimum
    THEN Done(Error(<<"Expected input.">>), c)
    ELSE Done(Result(s, List(results)), c)

\* the while loop leaving only when more than maximum values are collected
RECURSIVE RepeatLoop_PastMaximum(_, _, _, _, _)
RepeatLoop_PastMaximum(p, s, results, c0, fuel) ==
    IF fuel = 0 THEN Done(Diverge, c0)
    ELSE LET r == Run(p.self, s)
             c == c0 \o r.calls
         IN  IF ~Returned(r.res) THEN Done(r.res, c)
             ELSE IF IsInstanceError(r.res) THEN RepeatEnd(p, s, results, c)
             ELSE IF ~HasAttr(r.res, "output") THEN Done(Raise("AttributeError"), c)
             ELSE LET results2 == Append(results, r.res.output)
                      inp2 == r.res.input
                  IN  IF Truthy(p.maximum) /\ Len(results2) > p.maximum.n
                      THEN RepeatEnd(p, inp2, results2, c)
                      ELSE RepeatLoop_PastMaximum(p, inp2, results2, c, fuel - 1)

\* the while loop of the parser_fn of Parser.repeat
RepeatLoop(p, s, results, c0, fuel) ==
    IF fuel = 0 THEN Done(Diverge, c0)
    ELSE LET r == Run(p.self, s)
             c == c0 \o r.calls
         IN  IF ~Returned(r.res) THEN Done(r.res, c)
             ELSE IF IsInstanceError(r.res) THEN RepeatEnd(p, s, results, c)
             ELSE IF ~HasAttr(r.res, "output") THEN Done(Raise("AttributeError"), c)
             ELSE LET results2 == Append(results, r.res.output)
                      inp2 == r.res.input
                  IN  IF Truthy(p.maximum) /\ PyInt(Len(results2)) = p.maximum
                      THEN RepeatEnd(p, inp2, results2, c)
                      ELSE RepeatLoop(p, inp2, results2, c, fuel - 1)

\* the parser_fn of Parser.optional
OptionalFn(p, s) ==
    LET r == Run(p.self, s)
    IN  IF ~Returned(r.res) THEN r
        ELSE IF IsInstanceError(r.res) THEN Done(Result(s, NoneValue), r.calls)
        ELSE r

\* the for loop of the parser_fn of seq
SeqLoop(parsers, s, results, c0) ==
    IF Len(parsers) = 0 THEN Done(Result(s, List(results)), c0)
    ELSE LET r == Run(Head(parsers), s)
             c == c0 \o r.calls
         IN  IF ~Returned(r.res) THEN Done(r.res, c)
             ELSE IF IsInstanceError(r.res) THEN Done(r.res, c)
             ELSE IF ~IsInstanceResult(r.res) THEN Done(Raise("TypeError"), c)
             ELSE SeqLoop(Tail(parsers), r.res.input, Append(results, r.res.output), c)

\* take_any without the except clause: the IndexError leaves the call
TakeAnyFn_NoExcept(s) ==
    LET t == StreamTake(s, 1)
    IN  IF t.raised THEN Raise("IndexError") ELSE Result(t.remaining, t.taken)

\* the parser_fn of take_any
TakeAnyFn(s) ==
    LET t == StreamTake(s, 1)
    IN  IF t.raised
        THEN CustomError(<<"Expected something, but found end of input.">>,
                         Span(s.position, s.position + 1), "take_any")
        ELSE Result(t.remaining, t.taken)

\* the parser_fn of take
TakeFn(amount, s) ==
    LET t == StreamTake(s, amount)
    IN  IF t.raised THEN Raise("IndexError") ELSE Result(t.remaining, t.taken)

\* take_until taking the pattern as well
TakeUntilFn_TakesPattern(p, s) ==
    LET location == Index(s.stream, p.pattern.s)
    IN  IF location = -1
        THEN CustomError(<<"Pattern ">> \o p.pattern.s \o <<" not in input.">>,
                         Span(s.position, s.position + 1), "take_until")
        ELSE TakeFn(location + Len(p.pattern.s), s)

\* the parser_fn of take_until
TakeUntilFn(p, s) ==
    LET location == Index(s.stream, p.pattern.s)
    IN  IF location = -1
        THEN CustomError(<<"Pattern ">> \o p.pattern.s \o <<" not in input.">>,
                         Span(s.position, s.position + 1), "take_until")
        ELSE TakeFn(location, s)

\* the parser_fn of unexpected
UnexpectedFn(p, s) ==
    LET err_span == IF p.span # NoneValue THEN p.span ELSE Span(s.position, s.position + 1)
    IN  UnexpectedError(p.found, err_span, p.label)

\* zero
ZeroFn(s) == CustomError(<<"Zero parser.">>, Span(s.position, s.position + 1), "zero")

FailFn_SpanAtOrigin(p, s) == CustomError(p.message, Span(0, 1), "fail")

\* the parser_fn of fail
FailFn(p, s) == CustomError(p.message, Span(s.position, s.position + 1), "fail")

\* self.parser_fn(inp)
ParserFn(p, s) ==
    CASE p.op = "result" -> Done(Result(s, p.value), <<>>)
      [] p.op = "zero" -> Done(ZeroFn(s), <<>>)
      [] p.op = "fail" -> Done(FailFn(p, s), <<>>)
      [] p.op = "unexpected" -> Done(UnexpectedFn(p, s), <<>>)
      [] p.op = "take_any" -> Done(TakeAnyFn(s), <<>>)
      [] p.op = "take" -> Done(TakeFn(p.amount, s), <<>>)
      [] p.op = "take_until" -> Done(TakeUntilFn(p, s), <<>>)
      [] p.op = "bind" -> BindFn(p, s)
      [] p.op = "map_inner" -> MapInnerFn(p, s)
      [] p.op = "then_inner" -> ThenInnerFn(p, s)
      [] p.op = "alt" -> AltFn(p, s)
      [] p.op = "repeat" -> RepeatLoop(p, s, <<>>, <<>>, LoopFuel)
      [] p.op = "optional" -> OptionalFn(p, s)
      [] p.op = "seq" -> SeqLoop(p.parsers, s, <<>>, <<>>)

\* Parser.parse on an InputStream, with the log of the named objects called
Run(p, s) ==
    LET r == ParserFn(p, s)
    IN  Done(r.res, Log(p.name) \o r.calls)

\* Parser.parse
Parse(p, s) == Run(p, s).res

\* the same parser or function as an object whose calls are logged under n
Named(p, n) == [p EXCEPT !.name = n]

-----------------------------------------------------------------------------
(* The caller: texts, parsers and functions it uses *)

\* the texts of at most n characters
RECURSIVE TextsUpTo(_)
TextsUpTo(n) ==
    IF n = 0 THEN {<<>>}
    ELSE LET shorter == TextsUpTo(n - 1)
         IN  shorter \cup {Append(t, c) : t \in {u \in shorter : Len(u) = n - 1}, c \in Chars}

Texts == TextsUpTo(MaxLen)

\* a parser that fails with pint.Error on every input: it stops at its
\* maximum of one value and requires two
ExpectedInput == repeat(result(Str(<<"1">>)), 2, PyInt(1))

Primitives ==
    { result(Str(<<"1">>)), zero, fail(<<"Oh no.">>), take_any,
      just(Str(<<"_">>)), one_of(Str(Digits)), none_of(Str(<<"_">>)),
      satisfy(Lambda("isdigit", NoneValue)), take_until(Str(<<"@">>)) }

\* a parser that takes one token and fails with pint.Error at the end of input
AnyOrExpectedInput == alt(take_any, ExpectedInput)

Parsers ==
    Primitives \cup
    { ExpectedInput, AnyOrExpectedInput, optional(just(Str(<<"_">>))),
      repeat(take_any, 0, PyInt(1)) }

\* the parsers the caller uses as second argument of a combinator
Operands == { take_any, one_of(Str(Digits)), result(Str(<<"1">>)), ExpectedInput }

\* the parsers put around another one by delimited
Delimiters == { just(Str(<<"_">>)), ExpectedInput }

\* the binder functions of the caller
Binders ==
    { Lambda("result", NoneValue), Lambda("just", Str(<<"1">>)),
      Lambda("ignore_then", take_any), Lambda("ignore_then", ExpectedInput) }

\* the map functions of the caller
MapFns == { Lambda("dup", NoneValue), Lambda("int", NoneValue), Lambda("first", NoneValue) }

Maxima == {NoneValue} \cup {PyInt(n) : n \in 0..MaxCount}

NoOutcome == [cls |-> "none"]
NoArgs == [none |-> TRUE]

\* the caller gets the outcome of parser built, made by combinator o from
\* arguments a, on its stream
Call(o, a, built) ==
    /\ LET r == Run(built, inp)
       IN  /\ outcome' = r.res
           /\ calls' = r.calls
    /\ pc' = "returned"
    /\ op' = o
    /\ args' = a
    /\ UNCHANGED <<inp, origin, heap, frames, report>>

\* no Parser object of pint/parsers.py, no invocation under way, no report
NoHeap == <<>>
NoFrames == <<>>
NoReport == <<>>

Init ==
    /\ pc = "ready"
    /\ origin \in Texts
    /\ inp = InputStream(origin, 0)
    /\ op = "none"
    /\ args = NoArgs
    /\ outcome = NoOutcome
    /\ calls = <<>>
    /\ heap = NoHeap
    /\ frames = NoFrames
    /\ report = NoReport

\* InputStream.take(amount) by the caller
Take ==
    \E amount \in 0..(MaxLen + 1) :
        /\ pc = "ready"
        /\ LET t == StreamTake(inp, amount)
           IN  IF t.raised
               THEN /\ pc' = "returned"
                    /\ outcome' = Raise("IndexError")
                    /\ inp' = inp
               ELSE /\ pc' = "ready"
                    /\ outcome' = [cls |-> "taken", taken |-> t.taken]
                    /\ inp' = t.remaining
        /\ op' = "take"
        /\ args' = [amount |-> amount]
        /\ calls' = <<>>
        /\ UNCHANGED <<origin, heap, frames, report>>

ParsePrimitive ==
    \E p \in Parsers : pc = "ready" /\ Call("parse", [self |-> p], p)

ParseBind ==
    \E p \in Parsers, f \in Binders :
        LET a == [self |-> Named(p, "self"), binder |-> Named(f, "binder")]
        IN  pc = "ready" /\ Call("bind", a, bind(a.self, a.binder))

ParseMap ==
    \E p \in Parsers, f \in MapFns :
        LET a == [self |-> Named(p, "self"), map_fn |-> Named(f, "map_fn")]
        IN  pc = "ready" /\ Call("map", a, map(a.self, a.map_fn))

ParseThen ==
    \E p \in Parsers, q \in Operands :
        LET a == [self |-> Named(p, "self"), then_p |-> Named(q, "then_p")]
        IN  pc = "ready" /\ Call("then", a, then(a.self, a.then_p))

ParseThenIgnore ==
    \E p \in Parsers, q \in Operands :
        LET a == [self |-> Named(p, "self"), then_p |-> Named(q, "then_p")]
        IN  pc = "ready" /\ Call("then_ignore", a, then_ignore(a.self, a.then_p))

ParseIgnoreThen ==
    \E p \in Parsers, q \in Operands :
        LET a == [self |-> Named(p, "self"), then_p |-> Named(q, "then_p")]
        IN  pc = "ready" /\ Call("ignore_then", a, ignore_then(a.self, a.then_p))

ParseAlt ==
    \E p \in Parsers, q \in Operands :
        LET a == [self |-> Named(p, "self"), other |-> Named(q, "other")]
        IN  pc = "ready" /\ Call("alt", a, alt(a.self, a.other))

ParseRepeat ==
    \E p \in Parsers, mn \in 0..MaxCount, mx \in Maxima :
        LET a == [self |-> Named(p, "self"), minimum |-> mn, maximum |-> mx]
        IN  pc = "ready" /\ Call("repeat", a, repeat(a.self, mn, mx))

ParseOptional ==
    \E p \in Parsers :
        LET a == [self |-> Named(p, "self")]
        IN  pc = "ready" /\ Call("optional", a, optional(a.self))

ParseDelimited ==
    \E p \in Parsers, start \in Delimiters, end \in Delimiters :
        LET a == [self |-> Named(p, "self"), start |-> Named(start, "start"),
                  end |-> Named(end, "end")]
        IN  pc = "ready" /\ Call("delimited", a, delimited(a.self, a.start, a.end))

ParseFold ==
    \E p \in Parsers, q \in Operands :
        LET a == [self |-> Named(then(p, repeat(q, 0, PyInt(MaxCount))), "self"),
                  fold_fn |-> Named(Lambda("add", NoneValue), "fold_fn")]
        IN  pc = "ready" /\ Call("fold", a, fold(a.self, a.fold_fn))

ParseCollectStr ==
    \E p \in Parsers, mx \in Maxima :
        LET a == [self |-> Named(repeat(p, 0, mx), "self")]
        IN  pc = "ready" /\ Call("collect_str", a, collect_str(a.self))

ParseSeq ==
    \E p \in Parsers, q \in Operands :
        LET a == [parsers |-> <<Named(p, "first"), Named(q, "second")>>]
        IN  pc = "ready" /\ Call("seq", a, seq(a.parsers))

\* the values just is given
Expected == {Str(<<c>>) : c \in Chars}

\* the sets one_of and none_of are given
ValueSets == {Str(Digits), Str(<<"_", "@">>)}

\* the patterns take_until is given
Patterns == {Str(<<"@">>), Str(<<"1", "@">>), Str(<<>>)}

\* number = one_of("0123456789").map(int)
number == map(one_of(Str(Digits)), Lambda("int", NoneValue))

\* number.then(just(sign).ignore_then(number).repeat()) of test_fold, the
\* sign being the character "_" of the texts
addition == then(number, repeat(ignore_then(just(Str(<<"_">>)), number), 0, NoneValue))

ParseTake ==
    \E amount \in 0..(MaxLen + 1) :
        LET a == [amount |-> amount]
        IN  pc = "ready" /\ Call("take_parser", a, take(amount))

ParseJust ==
    \E expected \in Expected :
        LET a == [expected |-> expected]
        IN  pc = "ready" /\ Call("just", a, just(expected))

ParseOneOf ==
    \E values \in ValueSets :
        LET a == [values |-> values]
        IN  pc = "ready" /\ Call("one_of", a, one_of(values))

ParseNoneOf ==
    \E values \in ValueSets :
        LET a == [values |-> values]
        IN  pc = "ready" /\ Call("none_of", a, none_of(values))

ParseTakeUntil ==
    \E pattern \in Patterns :
        LET a == [pattern |-> pattern]
        IN  pc = "ready" /\ Call("take_until", a, take_until(pattern))

\* the texts just_str is given
ExpectedTexts == {Str(<<>>), Str(<<"1">>), Str(<<"1", "@">>), Str(<<"_", "1">>)}

\* the messages fail is given
Messages == {<<"Oh no.">>, <<"">>}

ParseJustStr ==
    \E expected \in ExpectedTexts :
        LET a == [expected |-> expected]
        IN  pc = "ready" /\ Call("just_str", a, just_str(expected))

ParseFail ==
    \E message \in Messages :
        LET a == [message |-> message]
        IN  pc = "ready" /\ Call("fail", a, fail(message))

ParseAddition ==
    LET a == [self |-> Named(addition, "self"),
              fold_fn |-> Named(Lambda("add", NoneValue), "fold_fn")]
    IN  pc = "ready" /\ Call("fold", a, fold(a.self, a.fold_fn))

Next ==
    \/ Take
    \/ ParsePrimitive
    \/ ParseBind
    \/ ParseMap
    \/ ParseThen
    \/ ParseThenIgnore
    \/ ParseIgnoreThen
    \/ ParseAlt
    \/ ParseRepeat
    \/ ParseOptional
    \/ ParseDelimited
    \/ ParseFold
    \/ ParseCollectStr
    \/ ParseSeq
    \/ ParseTake
    \/ ParseJust
    \/ ParseOneOf
    \/ ParseNoneOf
    \/ ParseTakeUntil
    \/ ParseAddition
    \/ ParseJustStr
    \/ ParseFail

Spec == Init /\ [][Next]_vars

-----------------------------------------------------------------------------
(* The Parser of pint/parsers.py, which carries the label.  A Parser object *)
(* is a record of its attributes, and heap[o] is the object of identity o. *)

\* the parsing function of symbol(expected)
symbol(expected) == [fn |-> "symbol", expected |-> expected]

\* the parsing function of take_or_not(char)
take_or_not(char) == [fn |-> "take_or_not", char |-> char]

\* Parser.__init__
LegacyParser(parser) ==
    [parser |-> parser, label |-> NoneValue, error_handlers |-> "report methods of self"]

\* what Parser.parse returns: the tuple (remaining input, output)
Pair(remaining, output) == [cls |-> "tuple", remaining |-> remaining, output |-> output]

\* ParseError(message)
ParseError(message) == [cls |-> "ParseError", message |-> message]

\* Parser.report_unexpected
report_unexpected(self) ==
    ParseError(IF Truthy(self.label) THEN <<"Expected to find ">> \o self.label.s
               ELSE <<"Unexpected input">>)

\* Parser.parse: self.parser(inp), an UnexpectedError of which is raised
\* again as the ParseError of report_unexpected
LegacyParse(self, text) ==
    LET f == self.parser
    IN  CASE f.fn = "symbol" ->
                LET n == Len(f.expected.s)
                    front == SubSeq(text, 1, IF n <= Len(text) THEN n ELSE Len(text))
                IN  IF front = f.expected.s
                    THEN Pair(SubSeq(text, n + 1, Len(text)), Str(front))
                    ELSE [cls |-> "raise", exc |-> report_unexpected(self)]
          [] f.fn = "take_or_not" ->
                IF Len(f.char.s) <= Len(text) /\ SubSeq(text, 1, Len(f.char.s)) = f.char.s
                THEN Pair(SubSeq(text, 2, Len(text)), NoneValue)
                ELSE Pair(text, NoneValue)

\* with_label making a labelled copy: a new instance, self left as it was
with_label_NewInstance(h, self, label) ==
    LET new == Len(h) + 1
    IN  [heap |-> Append(h, [h[self] EXCEPT !.label = label]), ret |-> new]

\* Parser.with_label on the object self of the heap h: the heap afterwards
\* and the object returned
with_label(h, self, label) ==
    [heap |-> [h EXCEPT ![self].label = label], ret |-> self]

\* the labels of the caller
Labels == {Str(<<>>), Str(<<"1">>), Str(<<"_">>)}

\* the caller holds symbol(expected) and take_or_not("_") and a text
InitLabel ==
    /\ pc = "ready"
    /\ origin \in TextsUpTo(MaxLen - 1)
    /\ inp = InputStream(origin, 0)
    /\ op = "none"
    /\ args = NoArgs
    /\ outcome = NoOutcome
    /\ calls = <<>>
    /\ \E expected \in ExpectedTexts :
            heap = <<LegacyParser(symbol(expected)), LegacyParser(take_or_not(Str(<<"_">>)))>>
    /\ frames = NoFrames
    /\ report = NoReport

\* the caller's call o with arguments a and result r on the heap h
LegacyCall(o, a, r, h) ==
    /\ op' = o
    /\ args' = a
    /\ outcome' = r
    /\ heap' = h
    /\ UNCHANGED <<pc, inp, origin, calls, frames, report>>

WithLabel ==
    \E self \in DOMAIN heap, label \in Labels :
        LET r == with_label(heap, self, label)
        IN  pc = "ready" /\ LegacyCall("with_label", [self |-> self, label |-> label],
                                       [cls |-> "ref", ref |-> r.ret], r.heap)

ParseLegacy ==
    \E self \in DOMAIN heap :
        pc = "ready" /\ LegacyCall("legacy_parse", [self |-> self],
                                   LegacyParse(heap[self], origin), heap)

ReportUnexpected ==
    \E self \in DOMAIN heap :
        pc = "ready" /\ LegacyCall("report_unexpected", [self |-> self],
                                   report_unexpected(heap[self]), heap)

NextLabel ==
    \/ WithLabel
    \/ ParseLegacy
    \/ ReportUnexpected

SpecLabel == InitLabel /\ [][NextLabel]_vars

-----------------------------------------------------------------------------
(* One Parser instance invoked from two call sites.  frames[k] holds the   *)
(* local variables of the invocation of call site k, whose steps are the   *)
(* statements of the parser_fn of repeat, alt and seq; the instance itself *)
(* (args.self) is the closure over self, other, minimum, maximum, parsers. *)

Sites == {1, 2}

\* the input texts of the second call site
SecondTexts == {<<>>, <<"1", "_">>, <<"@">>}

\* the instances the call sites share
SharedParsers ==
    { repeat(one_of(Str(Digits)), 1, PyInt(MaxCount)),
      repeat(AnyOrExpectedInput, 0, NoneValue),
      alt(just(Str(<<"_">>)), AnyOrExpectedInput),
      seq(<<take_any, one_of(Str(Digits))>>) }

\* the locals of parser_fn when it is entered with the stream s
Frame(s) ==
    [pc |-> "call", start |-> s, inp |-> s, results |-> <<>>, result |-> NoOutcome,
     i |-> 1, ret |-> NoOutcome]

\* return r
Return(f, r) == [f EXCEPT !.pc = "done", !.ret = r]

results_SharedList(k) == 1

\* the frame that holds the list `results` of the invocation of site k:
\* results is created inside parser_fn, once per invocation
results(k) == k

InitSites ==
    /\ pc = "ready"
    /\ origin \in TextsUpTo(MaxLen - 1)
    /\ inp = InputStream(origin, 0)
    /\ \E p \in SharedParsers : op = p.op /\ args = [self |-> p]
    /\ outcome = NoOutcome
    /\ calls = <<>>
    /\ heap = NoHeap
    /\ \E second \in SecondTexts :
            frames = <<Frame(InputStream(origin, 0)), Frame(InputStream(second, 0))>>
    /\ report = NoReport

\* result = self.parse(inp) and the test of its class
StepCall ==
    \E k \in Sites :
        LET f == frames[k]
            p == args.self
            list == frames[results(k)].results
        IN  /\ f.pc = "call"
            /\ frames' = [frames EXCEPT ![k] =
                    CASE op = "repeat" ->
                            IF Len(list) = LoopFuel THEN Return(f, Diverge)
                            ELSE LET r == Parse(p.self, f.inp)
                                 IN  IF ~Returned(r) THEN Return(f, r)
                                     ELSE IF IsInstanceError(r) THEN [f EXCEPT !.pc = "end"]
                                     ELSE [f EXCEPT !.pc = "append", !.result = r]
                      [] op = "seq" ->
                            IF f.i > Len(p.parsers) THEN [f EXCEPT !.pc = "end"]
                            ELSE LET r == Parse(p.parsers[f.i], f.inp)
                                 IN  IF ~Returned(r) \/ IsInstanceError(r) THEN Return(f, r)
                                     ELSE [f EXCEPT !.pc = "append", !.result = r]
                      [] op = "alt" ->
                            LET r == Parse(p.self, f.inp)
                            IN  IF ~Returned(r) \/ IsInstanceResult(r) THEN Return(f, r)
                                ELSE [f EXCEPT !.pc = "other", !.result = r]]
            /\ UNCHANGED <<pc, inp, origin, op, args, outcome, calls, heap, report>>

\* results.append(result.output); inp = result.input, and the test of maximum
StepAppend ==
    \E k \in Sites :
        LET f == frames[k]
            p == args.self
            list == frames[results(k)].results
        IN  /\ f.pc = "append"
            /\ frames' =
                    IF op = "repeat" /\ ~HasAttr(f.result, "output")
                    THEN [frames EXCEPT ![k] = Return(f, Raise("AttributeError"))]
                    ELSE IF op = "seq" /\ ~IsInstanceResult(f.result)
                    THEN [frames EXCEPT ![k] = Return(f, Raise("TypeError"))]
                    ELSE [frames EXCEPT
                            ![k].inp = f.result.input,
                            ![k].i = f.i + 1,
                            ![k].pc = IF op = "repeat" /\ Truthy(p.maximum)
                                            /\ PyInt(Len(list) + 1) = p.maximum
                                      THEN "end" ELSE "call",
                            ![results(k)].results = Append(list, f.result.output)]
            /\ UNCHANGED <<pc, inp, origin, op, args, outcome, calls, heap, report>>

\* other_result = other.parse(inp) of alt and what it returns
StepOther ==
    \E k \in Sites :
        LET f == frames[k]
            r2 == Parse(args.self.other, f.inp)
        IN  /\ f.pc = "other"
            /\ frames' = [frames EXCEPT ![k] =
                    IF ~Returned(r2) THEN Return(f, r2)
                    ELSE IF IsInstanceError(r2)
                    THEN IF ~HasAttr(f.result, "message") THEN Return(f, Raise("AttributeError"))
                         ELSE Return(f, Error(BothMessage(f.result.message, r2.message)))
                    ELSE Return(f, r2)]
            /\ UNCHANGED <<pc, inp, origin, op, args, outcome, calls, heap, report>>

\* the statements after the loop of repeat and of seq
StepEnd ==
    \E k \in Sites :
        LET f == frames[k]
            list == frames[results(k)].results
        IN  /\ f.pc = "end"
            /\ frames' = [frames EXCEPT ![k] =
                    IF op = "repeat" THEN Return(f, RepeatEnd(args.self, f.inp, list, <<>>).res)
                    ELSE Return(f, Result(f.inp, List(list)))]
            /\ UNCHANGED <<pc, inp, origin, op, args, outcome, calls, heap, report>>

NextSites ==
    \/ StepCall
    \/ StepAppend
    \/ StepOther
    \/ StepEnd

SpecSites == InitSites /\ [][NextSites]_vars

-----------------------------------------------------------------------------
(* make_report of pint/errors.py on the Failure of a primitive *)

\* longest text a report is made for
MaxReportLen == 4

NL == "\n"

\* the characters of those texts
ReportChars == {"1", NL}

\* Span.__contains__: other in self
SpanContains(self, other) == self.start <= other.start /\ self.end >= other.end

\* inp.splitlines(): the lines of the text, a final newline ending the last line
RECURSIVE SplitLines(_, _)
SplitLines(text, line) ==
    IF Len(text) = 0 THEN (IF Len(line) = 0 THEN <<>> ELSE <<line>>)
    ELSE IF Head(text) = NL THEN <<line>> \o SplitLines(Tail(text), <<>>)
    ELSE SplitLines(Tail(text), Append(line, Head(text)))

\* the loop of extract_lines over the lines that are left
RECURSIVE LineSpans(_, _)
LineSpans(lines, start) ==
    IF Len(lines) = 0 THEN <<>>
    ELSE <<[line |-> Head(lines), span |-> Span(start, start + Len(Head(lines)))]>>
            \o LineSpans(Tail(lines), start + Len(Head(lines)) + 1)

\* extract_lines
extract_lines(text) == LineSpans(SplitLines(text, <<>>), 0)

\* the loop of make_report: lineno and error_line after the lines from i on
RECURSIVE FindLine(_, _, _, _)
FindLine(lines, i, error, found) ==
    IF i > Len(lines) THEN found
    ELSE IF SpanContains(lines[i].span, error.span)
    THEN FindLine(lines, i + 1, error, [lineno |-> i, error_line |-> lines[i]])
    ELSE FindLine(lines, i + 1, error, found)

\* make_report: the parts the report is formatted from (the label of a
\* primitive's error is never empty, so the report always names it)
make_report(text, error) ==
    LET lines == extract_lines(text)
        found == FindLine(lines, 1, error,
                          [lineno |-> 0, error_line |-> [line |-> text, span |-> error.span]])
        indent_amount == error.span.start - found.error_line.span.start
    IN  [lineno |-> found.lineno,
         label |-> error.label,
         line |-> found.error_line.line,
         indent |-> IF indent_amount > 0 THEN indent_amount ELSE 0,
         error |-> ErrorStr(error)]

\* the texts reports are made for
RECURSIVE ReportTextsUpTo(_)
ReportTextsUpTo(n) ==
    IF n = 0 THEN {<<>>}
    ELSE LET shorter == ReportTextsUpTo(n - 1)
         IN  shorter \cup {Append(t, c) : t \in shorter, c \in ReportChars}

InitReport ==
    /\ pc = "ready"
    /\ origin \in ReportTextsUpTo(MaxReportLen) \ {<<>>}
    /\ inp = InputStream(origin, 0)
    /\ op = "none"
    /\ args = NoArgs
    /\ outcome = NoOutcome
    /\ calls = <<>>
    /\ heap = NoHeap
    /\ frames = NoFrames
    /\ report = NoReport

\* make_report(inp, error) by the caller, on the Failure of the last parse
MakeReport ==
    /\ pc = "returned"
    /\ outcome.cls \in {"CustomError", "UnexpectedError"}
    /\ report' = make_report(origin, outcome)
    /\ pc' = "reported"
    /\ UNCHANGED <<inp, origin, op, args, outcome, calls, heap, frames>>

NextReport ==
    \/ Take
    \/ ParsePrimitive
    \/ MakeReport

SpecReport == InitReport /\ [][NextReport]_vars

-----------------------------------------------------------------------------
(* Vocabulary of the properties *)

\* the outcome is a Success of the specification
IsSuccess(r) == r.cls = "Result"

\* the outcome is a Failure of the specification: an error object of either module
IsFailure(r) == r.cls \in {"Error", "CustomError", "UnexpectedError"}

\* the object named n was called during the last parse
Called(n) == \E i \in DOMAIN calls : calls[i] = n

\* the last call was of the parser made by combinator o
After(o) == pc = "returned" /\ op = o

\* the outcome of the parser the binder returns for the Success r
BoundOutcome(binder, r) ==
    LET b == ApplyBinder(binder, r.output)
    IN  IF b.raised THEN Raise(b.exc) ELSE Parse(b.parser, r.input)

-----------------------------------------------------------------------------
(* C1 - C10: the combinators *)

\* C1: if p.parse(s) is a Failure, p.bind(f).parse(s) returns that same
\* Failure and f is never called; if p.parse(s) is Success(r, v),
\* p.bind(f).parse(s) equals f(v).parse(r).
C1_BindContract ==
    After("bind") =>
        LET r == Parse(args.self, inp)
        IN  /\ IsFailure(r) => (outcome = r /\ ~Called("binder"))
            /\ IsSuccess(r) => outcome = BoundOutcome(args.binder, r)

\* C2 as stated: if p succeeds on s, p.alt(q).parse(s) equals p.parse(s) and
\* q is never invoked; if p fails on s, p.alt(q).parse(s) equals q.parse(s)
\* with q run on the same stream s.
C2_AltAsStated ==
    After("alt") =>
        LET r == Parse(args.self, inp)
        IN  /\ IsSuccess(r) => (outcome = r /\ ~Called("other"))
            /\ IsFailure(r) => outcome = Parse(args.other, inp)

\* C2 amended: if p succeeds on s, p.alt(q).parse(s) equals p.parse(s) and q
\* is never invoked; if p fails on s and q succeeds on s, p.alt(q).parse(s)
\* equals q.parse(s), q being run once on the same original stream s.
C2_AltFirstSuccess ==
    After("alt") =>
        LET r == Parse(args.self, inp)
            r2 == Parse(args.other, inp)
        IN  /\ IsSuccess(r) => (outcome = r /\ ~Called("other"))
            /\ (IsFailure(r) /\ IsSuccess(r2)) => (outcome = r2 /\ calls = <<"self", "other">>)

\* C2 witness: p failed on a non-empty stream, q was invoked and succeeded
C2_Witness ==
    /\ After("alt")
    /\ IsFailure(Parse(args.self, inp))
    /\ IsSuccess(outcome)
    /\ Called("other")
    /\ outcome.input.position > inp.position

\* C3: when both p and q fail on s, p.alt(q).parse(s) is a single combined
\* Failure whose message contains the message of p and the message of q.
C3_AltCombined ==
    After("alt") =>
        LET r == Parse(args.self, inp)
            r2 == Parse(args.other, inp)
        IN  (IsFailure(r) /\ IsFailure(r2)) =>
                /\ IsFailure(outcome)
                /\ Contains(ErrorStr(outcome), ErrorStr(r))
                /\ Contains(ErrorStr(outcome), ErrorStr(r2))

\* C4: p.optional().parse(s) is never a Failure: if p.parse(s) fails the
\* result is Success(None, s) with s unchanged; if p.parse(s) succeeds the
\* result is that Success.
C4_OptionalNeverFails ==
    After("optional") =>
        LET r == Parse(args.self, inp)
        IN  /\ ~IsFailure(outcome)
            /\ IsFailure(r) => outcome = Result(inp, NoneValue)
            /\ IsSuccess(r) => outcome = r

\* the number of times in a row p succeeds from s, counted up to limit
RECURSIVE Streak(_, _, _)
Streak(p, s, limit) ==
    IF limit = 0 THEN 0
    ELSE LET r == Parse(p, s)
         IN  IF IsSuccess(r) THEN 1 + Streak(p, r.input, limit - 1) ELSE 0

\* the stream left after p succeeded n times in a row from s
RECURSIVE After_n(_, _, _)
After_n(p, s, n) == IF n = 0 THEN s ELSE After_n(p, Parse(p, s).input, n - 1)

\* the outputs of n successes in a row of p from s
RECURSIVE Outputs(_, _, _)
Outputs(p, s, n) ==
    IF n = 0 THEN <<>>
    ELSE LET r == Parse(p, s) IN <<r.output>> \o Outputs(p, r.input, n - 1)

\* C5: if p.repeat(minimum=m, maximum=M).parse(s) is a Success, the number c
\* of collected values satisfies m <= c and, when M is given (0 included),
\* c <= M; and the call is the Failure "Expected input." exactly when p
\* succeeds fewer than m times in a row from s.
C5_RepeatCount ==
    After("repeat") =>
        /\ IsSuccess(outcome) =>
                /\ args.minimum <= Len(outcome.output.l)
                /\ args.maximum # NoneValue => Len(outcome.output.l) <= args.maximum.n
        /\ (outcome = Error(<<"Expected input.">>))
                <=> (Streak(args.self, inp, args.minimum) < args.minimum)

\* C6: when p.repeat(...) succeeds, its values are the successive outputs of
\* p in order and its remaining stream is the one left by the last
\* successful run of p; with minimum=0 and no success of p the result is
\* Success with the empty list and the original stream.
C6_RepeatValues ==
    After("repeat") =>
        /\ IsSuccess(outcome) =>
                LET n == Len(outcome.output.l)
                IN  /\ Streak(args.self, inp, n) = n
                    /\ outcome.output.l = Outputs(args.self, inp, n)
                    /\ outcome.input = After_n(args.self, inp, n)
        /\ (args.minimum = 0 /\ IsFailure(Parse(args.self, inp))) =>
                outcome = Result(inp, List(<<>>))

\* C7: a.then(b).parse(s) succeeds if and only if a.parse(s) succeeds with
\* some remaining r and b.parse(r) succeeds; on success its value is the
\* pair of both outputs and its remaining stream is that of b.
C7_ThenPair ==
    After("then") =>
        LET a == Parse(args.self, inp)
        IN  /\ IsSuccess(outcome) <=>
                (IsSuccess(a) /\ IsSuccess(Parse(args.then_p, a.input)))
            /\ IsSuccess(outcome) =>
                LET b == Parse(args.then_p, a.input)
                IN  /\ outcome.output = Tuple(a.output, b.output)
                    /\ outcome.input = b.input

\* C7 witness: both parsers succeeded and both consumed input
C7_Witness ==
    /\ After("then")
    /\ IsSuccess(outcome)
    /\ calls = <<"self", "then_p">>
    /\ Parse(args.self, inp).input.position = inp.position + 1
    /\ outcome.input.position = inp.position + 2

\* C8: if p.parse(s) = Success(r, v) then p.map(f).parse(s) = Success(r, f(v));
\* if p.parse(s) is a Failure, p.map(f).parse(s) is that Failure and f is
\* not applied.
C8_MapContract ==
    After("map") =>
        LET r == Parse(args.self, inp)
        IN  /\ IsSuccess(r) =>
                LET v == CallFn(args.map_fn, r.output)
                IN  ~v.raised => outcome = Result(r.input, v.value)
            /\ IsFailure(r) => (outcome = r /\ ~Called("map_fn"))

\* the component parsers a sequencing combinator runs, in order
Components ==
    CASE op \in {"map", "fold", "collect_str"} -> <<args.self>>
      [] op \in {"then", "then_ignore", "ignore_then"} -> <<args.self, args.then_p>>
      [] op = "delimited" -> <<args.start, args.self, args.end>>
      [] op = "seq" -> args.parsers
      [] op = "bind" ->
            LET r == Parse(args.self, inp)
                b == ApplyBinder(args.binder, r.output)
            IN  IF IsSuccess(r) /\ ~b.raised
                THEN <<args.self, Named(b.parser, "bound")>>
                ELSE <<args.self>>
      [] OTHER -> <<>>

\* the index of the first component that fails when the components are run
\* one after the other from s, 0 when none fails or one does not return
RECURSIVE FirstFailing(_, _, _)
FirstFailing(ps, s, i) ==
    IF i > Len(ps) THEN 0
    ELSE LET r == Parse(ps[i], s)
         IN  IF IsFailure(r) THEN i
             ELSE IF IsSuccess(r) THEN FirstFailing(ps, r.input, i + 1)
             ELSE 0

\* the stream the i-th component is run on
RECURSIVE StreamAt(_, _, _)
StreamAt(ps, s, i) == IF i = 1 THEN s ELSE Parse(ps[i - 1], StreamAt(ps, s, i - 1)).input

\* C9: for the sequencing combinators, when a component parser fails the
\* composed parser returns exactly the first Failure encountered (same
\* message, span and label) and no later component is invoked.
C9_FirstFailureVerbatim ==
    pc = "returned" =>
        LET ps == Components
            i == FirstFailing(ps, inp, 1)
        IN  i > 0 =>
                /\ outcome = Parse(ps[i], StreamAt(ps, inp, i))
                /\ \A j \in (i + 1)..Len(ps) : ~Called(ps[j].name)

\* C10: parse is total: for every parser built from the primitives with the
\* combinators and every finite input stream, the empty one included, parse
\* returns a Success or a Failure and never raises.
C10_ParseTotal ==
    (/\ pc = "returned"
     /\ \/ op \in {"parse", "bind", "then", "alt", "repeat", "optional", "delimited"}
        \/ op = "map" /\ args.map_fn.fn = "dup")
        => (IsSuccess(outcome) \/ IsFailure(outcome))

-----------------------------------------------------------------------------
(* C11 - C20: the primitives and the stream *)

\* the stream s advanced by n tokens
Advanced(s, n) == InputStream(SubSeq(s.stream, n + 1, Len(s.stream)), s.position + n)

\* the first n tokens of the stream s
Front(s, n) == Str(SubSeq(s.stream, 1, n))

\* C11: take(n) consumes exactly n tokens when at least n remain, returning
\* them and the stream advanced by n; when fewer than n remain it returns a
\* Failure rather than letting the out-of-range error escape from parse.
C11_TakeParser ==
    After("take_parser") =>
        IF args.amount <= Len(inp.stream)
        THEN outcome = Result(Advanced(inp, args.amount), Front(inp, args.amount))
        ELSE IsFailure(outcome)

C13_Just ==
    After("just") =>
        IF Len(inp.stream) > 0 /\ Front(inp, 1) = args.expected
        THEN outcome = Result(Advanced(inp, 1), args.expected)
        ELSE IsFailure(outcome)

\* t in S for the first token t of the stream s
FirstIn(s, values) == Len(s.stream) > 0 /\ StrIn(SubSeq(s.stream, 1, 1), values.s)

\* an "Unexpected item" Failure
IsUnexpectedItem(r) ==
    /\ IsFailure(r)
    /\ Len(ErrorStr(r)) > 0
    /\ Head(ErrorStr(r)) = "Unexpected item "

\* C14: on a stream whose first token is t, one_of(S) succeeds with value t
\* and one token consumed iff t is in S, none_of(S) succeeds iff t is not in
\* S, so exactly one of the two succeeds, and the one that rejects t
\* returns an "Unexpected item" Failure; both return a Failure on the empty
\* stream.
C14_OneOfNoneOf ==
    (After("one_of") \/ After("none_of")) =>
        LET accepts == IF op = "one_of" THEN FirstIn(inp, args.values)
                       ELSE ~FirstIn(inp, args.values)
            other == IF op = "one_of" THEN Parse(none_of(args.values), inp)
                     ELSE Parse(one_of(args.values), inp)
        IN  IF Len(inp.stream) = 0
            THEN IsFailure(outcome) /\ IsFailure(other)
            ELSE /\ IsSuccess(outcome) <=> accepts
                 /\ IsSuccess(outcome) <=> ~IsSuccess(other)
                 /\ accepts => outcome = Result(Advanced(inp, 1), Front(inp, 1))
                 /\ ~accepts => IsUnexpectedItem(outcome)

\* the tokens of s from index i (counted from 0) on begin with the pattern
OccursAt(s, pattern, i) ==
    /\ i + Len(pattern) <= Len(s)
    /\ SubSeq(s, i + 1, i + Len(pattern)) = pattern

\* C15: take_until(pattern).parse(s): when the pattern occurs in the
\* remaining tokens the result is a Success whose value is all the tokens
\* before the lowest-index occurrence and whose remaining stream begins
\* with that occurrence (the pattern is not consumed, the value may be
\* empty); when the pattern does not occur the result is a Failure and
\* nothing is raised.
C15_TakeUntil ==
    After("take_until") =>
        LET pattern == args.pattern.s
            Occurrences == {i \in 0..Len(inp.stream) : OccursAt(inp.stream, pattern, i)}
        IN  IF Occurrences # {}
            THEN \E i \in Occurrences :
                    /\ \A j \in Occurrences : i <= j
                    /\ outcome = Result(Advanced(inp, i), Front(inp, i))
                    /\ OccursAt(outcome.input.stream, pattern, 0)
            ELSE IsFailure(outcome)

\* C15 witness: the pattern was found after some tokens, and the remaining
\* stream holds more than the pattern
C15_Witness ==
    /\ After("take_until")
    /\ IsSuccess(outcome)
    /\ Len(args.pattern.s) > 0
    /\ Len(outcome.output.s) > 0
    /\ outcome.input.stream # args.pattern.s

\* C15 witness of the failure: the pattern does not occur in what remains
C15_Absent ==
    /\ After("take_until")
    /\ outcome.cls = "CustomError"
    /\ Len(inp.stream) > 0

\* f(...f(f(initial, x1), x2)..., xn), folding from the last item inwards
RECURSIVE FoldLeft(_, _)
FoldLeft(initial, xs) ==
    IF Len(xs) = 0 THEN Returns(initial)
    ELSE LET front == FoldLeft(initial, SubSeq(xs, 1, Len(xs) - 1))
         IN  IF front.raised THEN front ELSE Add(front.value, xs[Len(xs)])

\* C16: for a parser p whose output is (initial, [x1..xn]), p.fold(f)
\* succeeds exactly when p does, with the same remaining stream and the
\* value f(...f(f(initial, x1), x2)..., xn), which is initial when the list
\* is empty; and number.then(sign.ignore_then(number).repeat()).fold(add)
\* on the text of two digits 1 around a sign gives the value 2 with an
\* empty remaining stream.
C16_Fold ==
    After("fold") =>
        LET r == Parse(args.self, inp)
        IN  /\ IsSuccess(outcome) => IsSuccess(r)
            /\ IsSuccess(r) =>
                LET value == FoldLeft(r.output.a, r.output.b.l)
                IN  ~value.raised => outcome = Result(r.input, value.value)
            /\ (args.self = Named(addition, "self") /\ inp = InputStream(<<"1", "_", "1">>, 0)) =>
                outcome = Result(InputStream(<<>>, 3), PyInt(2))

\* every character of the text w is one of values
DrawnFrom(w, values) == \A i \in 1..Len(w) : StrIn(<<w[i]>>, values.s)

\* C17: for every set S and every finite text w, the empty one included,
\* whose characters are all in S, one_of(S).repeat().collect_str().parse(w)
\* is a Success with value w and an empty remaining stream.
C17_CollectStrRoundTrip ==
    \A values \in ValueSets :
        (/\ After("collect_str")
         /\ args.self = Named(repeat(one_of(values), 0, NoneValue), "self")
         /\ DrawnFrom(inp.stream, values)) =>
            outcome = Result(Advanced(inp, Len(inp.stream)), Str(inp.stream))

\* C18: every Failure returned by a primitive or a combinator, the combined
\* Failure of alt and the "Expected input." Failure of repeat included,
\* carries a message, a span (start, end) and a label that may be None.
C18_FailureFields ==
    (pc = "returned" /\ IsFailure(outcome)) =>
        /\ HasAttr(outcome, "message")
        /\ HasAttr(outcome, "span")
        /\ HasAttr(outcome, "label")

\* the stream r holds the last tokens of the stream s
IsSuffix(r, s) ==
    /\ Len(r.stream) <= Len(s.stream)
    /\ r.stream = SubSeq(s.stream, Len(s.stream) - Len(r.stream) + 1, Len(s.stream))

\* C19: parsers never move backward: when parse(s) is a Success with
\* remaining stream r, r.position >= s.position and the tokens of r are a
\* suffix of the tokens of s.
C19_NeverBackward ==
    (pc = "returned" /\ IsSuccess(outcome)) =>
        /\ outcome.input.position >= inp.position
        /\ IsSuffix(outcome.input, inp)

\* C19 witness: a combinator of two parsers succeeded on a stream that was
\* advanced before, and consumed tokens of it
C19_Witness ==
    /\ After("then")
    /\ IsSuccess(outcome)
    /\ inp.position > 0
    /\ outcome.input.position > inp.position

\* position = number of tokens consumed since the origin
AtOrigin(s) ==
    /\ s.position + Len(s.stream) = Len(origin)
    /\ s.stream = SubSeq(origin, s.position + 1, Len(origin))

\* C20: starting from InputStream(tokens, 0), every stream reached by
\* successful takes, made directly or by parsers, has position + length of
\* the remaining tokens = length of the original sequence; take(n) with
\* 0 <= n <= remaining returns the next n tokens and a stream whose
\* position is n more, and take(n) with n > remaining raises the
\* out-of-range error without producing a stream.
C20_PositionInvariant ==
    /\ AtOrigin(inp)
    /\ (pc = "returned" /\ IsSuccess(outcome)) => AtOrigin(outcome.input)
    /\ (op = "take" /\ pc = "ready") =>
        /\ args.amount <= inp.position
        /\ outcome.taken = Str(SubSeq(origin, inp.position - args.amount + 1, inp.position))
    /\ (op = "take" /\ pc = "returned") =>
        /\ outcome = Raise("IndexError")
        /\ args.amount > Len(inp.stream)

\* C20 witness: tokens were taken from a stream that was advanced before
C20_Witness ==
    /\ op = "take"
    /\ pc = "ready"
    /\ args.amount > 0
    /\ inp.position > args.amount
    /\ Len(inp.stream) = 0

-----------------------------------------------------------------------------
(* C21 - C30 *)

\* C21: just_str(expected).parse(s) succeeds, consuming exactly
\* len(expected) tokens with value expected, if and only if s starts with
\* expected; when s is shorter than expected or its prefix differs the
\* result is a Failure and no exception is raised.
C21_JustStr ==
    After("just_str") =>
        IF OccursAt(inp.stream, args.expected.s, 0)
        THEN outcome = Result(Advanced(inp, Len(args.expected.s)), args.expected)
        ELSE IsFailure(outcome)

\* C22: zero and fail(msg) return a Failure on every input stream, the
\* empty one included, and never a Success: the message of zero is
\* "Zero parser.", the message of fail is msg, and the span is
\* (position, position + 1) of the stream they were given.
C22_ZeroFail ==
    /\ (After("parse") /\ args.self = zero) =>
        /\ IsFailure(outcome)
        /\ outcome.message = <<"Zero parser.">>
        /\ outcome.span = Span(inp.position, inp.position + 1)
    /\ After("fail") =>
        /\ IsFailure(outcome)
        /\ outcome.message = args.message
        /\ outcome.span = Span(inp.position, inp.position + 1)

\* C22 witness: fail was run at the end of a text that was taken before
C22_Witness ==
    /\ After("fail")
    /\ inp.position > 0
    /\ Len(inp.stream) = 0
    /\ outcome.cls = "CustomError"

\* the last call was of just, one_of, none_of or satisfy
AfterTokenTest ==
    \/ After("just")
    \/ After("one_of")
    \/ After("none_of")
    \/ (After("parse") /\ args.self = satisfy(Lambda("isdigit", NoneValue)))

\* C25: when just, one_of, none_of or satisfy rejects the token found at
\* stream position i, the span of the Failure is (i, i + 1): it covers the
\* rejected token, at the position of the stream the parser was given, not
\* a later position.
C25_RejectionSpan ==
    (AfterTokenTest /\ Len(inp.stream) > 0 /\ IsFailure(outcome)) =>
        outcome.span = Span(inp.position, inp.position + 1)

\* the number of entries n in the log c
RECURSIVE Count(_, _)
Count(c, n) ==
    IF Len(c) = 0 THEN 0
    ELSE (IF Head(c) = n THEN 1 ELSE 0) + Count(Tail(c), n)

\* C26: in p.repeat(maximum=M) with M >= 1, p is invoked at most M times
\* per parse: once M successes are collected the loop stops without
\* running p again, so the input after the M-th match is left in the
\* remaining stream even if p would match it.
C26_RepeatStopsAtMaximum ==
    (After("repeat") /\ Truthy(args.maximum)) =>
        /\ Count(calls, "self") <= args.maximum.n
        /\ (IsSuccess(outcome) /\ Len(outcome.output.l) = args.maximum.n) =>
                outcome.input = After_n(args.self, inp, args.maximum.n)

\* C26 witness: the loop stopped at the maximum although p matches, and
\* consumes, what is left
C26_Witness ==
    /\ After("repeat")
    /\ Truthy(args.maximum)
    /\ IsSuccess(outcome)
    /\ Len(outcome.output.l) = args.maximum.n
    /\ Count(calls, "self") = args.maximum.n
    /\ IsSuccess(Parse(args.self, outcome.input))
    /\ Parse(args.self, outcome.input).input # outcome.input

\* C27: then_ignore(q) and ignore_then(q) are then(q) followed by a
\* projection: p.then_ignore(q).parse(s) equals p.then(q).map(first).parse(s)
\* and p.ignore_then(q).parse(s) equals p.then(q).map(second).parse(s), on
\* success (same value and remaining stream) and on failure (same Failure).
C27_ThenProjections ==
    /\ After("then_ignore") =>
        outcome = Parse(map(then(args.self, args.then_p), Lambda("first", NoneValue)), inp)
    /\ After("ignore_then") =>
        outcome = Parse(map(then(args.self, args.then_p), Lambda("second", NoneValue)), inp)

\* C29: bind and result satisfy the monad laws on every input stream:
\* result(v).bind(f) gives the same result as f(v), p.bind(result) gives
\* the same result as p, and p.bind(f).bind(g) gives the same result as
\* p.bind(lambda v: f(v).bind(g)).
C29_MonadLaws ==
    After("bind") =>
        /\ args.self.op = "result" =>
                outcome = BoundOutcome(args.binder, Result(inp, args.self.value))
        /\ args.binder.fn = "result" => outcome = Parse(args.self, inp)
        /\ \A g \in Binders :
                Parse(bind(bind(args.self, args.binder), g), inp)
                    = Parse(bind(args.self, Lambda("bind_after", [f |-> args.binder, g |-> g])), inp)

\* C28: p.repeat(minimum, maximum) terminates on every finite input stream
\* for every parser p that itself terminates, the parsers that can succeed
\* without consuming a token (result(v), p.optional(), another repeat())
\* included, also when maximum is absent.
C28_RepeatTerminates ==
    After("repeat") => outcome # Diverge

\* C23: with_label(text) changes only the label field of the parser: it
\* sets the label to text, leaves the wrapped parsing function, and so the
\* result of parse on every input that succeeds, unchanged, and returns
\* the instance it was called on.
C23_WithLabelFrame ==
    [][op' = "with_label" =>
        LET self == args'.self
        IN  /\ DOMAIN heap' = DOMAIN heap
            /\ heap'[self].label = args'.label
            /\ heap'[self].parser = heap[self].parser
            /\ heap'[self].error_handlers = heap[self].error_handlers
            /\ \A o \in DOMAIN heap : o # self => heap'[o] = heap[o]
            /\ outcome'.ref = self
            /\ \A text \in Texts :
                    LegacyParse(heap[self], text).cls = "tuple" =>
                        LegacyParse(heap'[self], text) = LegacyParse(heap[self], text)]_vars

\* C23 witness: a parser that had a label was given another one, which
\* changes what it reports for an input it rejects
C23_Witness ==
    /\ op = "with_label"
    /\ heap[args.self].label = args.label
    /\ Truthy(args.label)
    /\ \E o \in DOMAIN heap : o # args.self /\ Truthy(heap[o].label) /\ heap[o].label # args.label
    /\ LegacyParse(heap[args.self], origin).cls = "raise"
    /\ LegacyParse(heap[args.self], origin) # LegacyParse(LegacyParser(heap[args.self].parser), origin)

\* every finished invocation returned what the parser returns when run alone
ResultAsAlone ==
    \A k \in DOMAIN frames :
        frames[k].pc = "done" => frames[k].ret = Parse(args.self, frames[k].start)

\* a step changes the local variables of one invocation only
OneFrame ==
    \A k \in DOMAIN frames :
        frames'[k] # frames[k] => \A j \in DOMAIN frames : j # k => frames'[j] = frames[j]

\* C24: when the same Parser instance (one built with repeat, alt or seq
\* included) is invoked by two call sites on different input streams with
\* their steps interleaved arbitrarily, each invocation returns the result
\* it would return if run alone, and no invocation writes state that
\* another invocation reads.
C24_Reentrant == []ResultAsAlone /\ [][OneFrame]_vars

\* C24 witness: both invocations have collected values and are inside the
\* loop, on different streams, and one of them has finished since
C24_Witness ==
    /\ frames # NoFrames
    /\ frames[1].start # frames[2].start
    /\ Len(frames[1].results) > 0
    /\ Len(frames[2].results) > 0
    /\ frames[1].pc = "done"
    /\ frames[2].pc = "append"
    /\ IsSuccess(frames[1].ret)

\* C30: for every non-empty text and every Failure a primitive produces
\* while parsing it (an end-of-input Failure, whose span starts at the end
\* of the last line, included), make_report places the error on an
\* existing line: the line number is between 1 and the number of lines,
\* the line shown is that line of the input, and the caret indent is
\* span.start minus the start offset of that line.
C30_ReportOnExistingLine ==
    pc = "reported" =>
        LET lines == extract_lines(origin)
        IN  /\ report.lineno \in 1..Len(lines)
            /\ report.line = lines[report.lineno].line
            /\ report.indent = outcome.span.start - lines[report.lineno].span.start

====
